---- MODULE Spec2Model ----
(***************************************************************************)
(* Model of examples/pulumi/python/__main__.py: a Pulumi program that      *)
(* reads two configuration values, declares five AWS resources and         *)
(* publishes six stack outputs.  The script is evaluated top to bottom,    *)
(* one statement per action; the provisioning engine realizes registered   *)
(* resources concurrently with the script, in dependency order.            *)
(***************************************************************************)
EXTENDS Integers, Sequences, FiniteSets, TLC

VARIABLES
    cfg,         \* the stack's configuration context: key -> string, keys optional
    pc,          \* the statement the script is about to evaluate
    globals,     \* the module namespace: Python name -> value
    registered,  \* resources registered with the engine, in registration order
    exports,     \* the stack outputs: output name -> Output
    realized     \* resources the engine has realized, in realization order

vars == <<cfg, pc, globals, registered, exports, realized>>

(***************************************************************************)
(* Bounds of the configuration values drawn in Init.                       *)
(***************************************************************************)
MaxLen == 2

EnvChars == {"d", "p"}

RECURSIVE Strs(_)
Strs(n) ==
    IF n = 0 THEN {""}
    ELSE Strs(n - 1) \cup {s \o c : s \in Strs(n - 1), c \in EnvChars}

EnvironmentValues == Strs(MaxLen) \cup {"dev"}

InstanceTypeValues == {"", "t3.micro", "m5.large"}

\* A configuration context sets any subset of the two keys.
Configs ==
    UNION {
        { [k \in ks |-> IF k = "environment" THEN e ELSE t] :
            e \in EnvironmentValues, t \in InstanceTypeValues }
        : ks \in SUBSET {"environment", "instanceType"} }

(***************************************************************************)
(* Python values.                                                          *)
(***************************************************************************)
\* Optional string: None, or a str.
None == [isNone |-> TRUE, val |-> ""]

Str(s) == [isNone |-> FALSE, val |-> s]

\* config.get(key): the value of the key, None when the key is not set.
ConfigGet(config, key) ==
    IF key \in DOMAIN config THEN Str(config[key]) ELSE None

\* Truth value of an optional string: None and "" are falsy.
Truthy(v) == ~v.isNone /\ v.val # ""

\* Variant of PyOr: the default is dropped, None reads as the empty string.
PyOrNoDefault(v, d) == v.val

\* `v or d` with d a str.
PyOr(v, d) == IF Truthy(v) THEN v.val ELSE d

\* resource.attr: an Output of the resource bound to the Python name var.
Output(var, attr) == [res |-> var, attr |-> attr]

(***************************************************************************)
(* The five resource declarations: constructor arguments as written.       *)
(* depends_on is the ResourceOptions field, empty when no opts are given.  *)
(***************************************************************************)
\* Variant of NameTag: the separator is missing.
NameTagNoSeparator(environment, suffix) == environment \o suffix

\* f"{environment}-{suffix}"
NameTag(environment, suffix) == environment \o "-" \o suffix

Tags(environment, suffix) ==
    [Name |-> NameTag(environment, suffix), Environment |-> environment]

VpcArgs(environment) ==
    [ type |-> "aws.ec2.Vpc",
      name |-> "app-vpc",
      cidr_block |-> "10.0.0.0/16",
      enable_dns_hostnames |-> TRUE,
      enable_dns_support |-> TRUE,
      tags |-> Tags(environment, "vpc"),
      depends_on |-> {} ]

\* Variant of SubnetArgs: the vpc_id argument is missing.
SubnetArgsNoVpc(environment) ==
    [ type |-> "aws.ec2.Subnet",
      name |-> "app-subnet",
      cidr_block |-> "10.0.1.0/24",
      availability_zone |-> "us-east-1a",
      tags |-> [Name |-> environment \o "-subnet", Environment |-> environment],
      depends_on |-> {} ]

SubnetArgs(environment) ==
    [ type |-> "aws.ec2.Subnet",
      name |-> "app-subnet",
      vpc_id |-> Output("vpc", "id"),
      cidr_block |-> "10.0.1.0/24",
      availability_zone |-> "us-east-1a",
      tags |-> Tags(environment, "subnet"),
      depends_on |-> {} ]

\* Variant of SecurityGroupIngress: a third rule opens port 443.
SecurityGroupIngressWithHttps ==
    << [ protocol |-> "tcp", from_port |-> 80, to_port |-> 80,
         cidr_blocks |-> <<"0.0.0.0/0">>, description |-> "Allow HTTP" ],
       [ protocol |-> "tcp", from_port |-> 22, to_port |-> 22,
         cidr_blocks |-> <<"0.0.0.0/0">>, description |-> "Allow SSH" ],
       [ protocol |-> "tcp", from_port |-> 443, to_port |-> 443,
         cidr_blocks |-> <<"0.0.0.0/0">>, description |-> "Allow HTTPS" ] >>

SecurityGroupIngress ==
    << [ protocol |-> "tcp", from_port |-> 80, to_port |-> 80,
         cidr_blocks |-> <<"0.0.0.0/0">>, description |-> "Allow HTTP" ],
       [ protocol |-> "tcp", from_port |-> 22, to_port |-> 22,
         cidr_blocks |-> <<"0.0.0.0/0">>, description |-> "Allow SSH" ] >>

SecurityGroupEgress ==
    << [ protocol |-> "-1", from_port |-> 0, to_port |-> 0,
         cidr_blocks |-> <<"0.0.0.0/0">>, description |-> "Allow all outbound" ] >>

SecurityGroupArgs(environment) ==
    [ type |-> "aws.ec2.SecurityGroup",
      name |-> "app-sg",
      vpc_id |-> Output("vpc", "id"),
      description |-> "Allow HTTP and SSH traffic",
      ingress |-> SecurityGroupIngress,
      egress |-> SecurityGroupEgress,
      tags |-> Tags(environment, "sg"),
      depends_on |-> {} ]

\* Variant of BucketArgs: versioning is switched off.
BucketArgsNoVersioning(environment) ==
    [ type |-> "aws.s3.Bucket",
      name |-> "app-bucket",
      acl |-> "private",
      versioning |-> [enabled |-> FALSE],
      server_side_encryption_configuration |->
          [rule |-> [apply_server_side_encryption_by_default |->
              [sse_algorithm |-> "AES256"]]],
      tags |-> [Name |-> environment \o "-bucket", Environment |-> environment],
      depends_on |-> {} ]

\* Variant of BucketArgs: the access level follows the environment.
BucketArgsAclByEnvironment(environment) ==
    [ type |-> "aws.s3.Bucket",
      name |-> "app-bucket",
      acl |-> IF environment = "dev" THEN "public-read" ELSE "private",
      versioning |-> [enabled |-> TRUE],
      server_side_encryption_configuration |->
          [rule |-> [apply_server_side_encryption_by_default |->
              [sse_algorithm |-> "AES256"]]],
      tags |-> [Name |-> environment \o "-bucket", Environment |-> environment],
      depends_on |-> {} ]

BucketArgs(environment) ==
    [ type |-> "aws.s3.Bucket",
      name |-> "app-bucket",
      acl |-> "private",
      versioning |-> [enabled |-> TRUE],
      server_side_encryption_configuration |->
          [rule |-> [apply_server_side_encryption_by_default |->
              [sse_algorithm |-> "AES256"]]],
      tags |-> Tags(environment, "bucket"),
      depends_on |-> {} ]

\* Variant of InstanceDependsOn: the security group is left out.
InstanceDependsOnSubnetOnly == {"subnet"}

\* Variant of InstanceDependsOn: the bucket is added.
InstanceDependsOnWithBucket == {"subnet", "security_group", "bucket"}

InstanceDependsOn == {"subnet", "security_group"}

InstanceArgs(environment, instance_type) ==
    [ type |-> "aws.ec2.Instance",
      name |-> "web-server",
      ami |-> "ami-0c55b159cbfafe1f0",
      instance_type |-> instance_type,
      subnet_id |-> Output("subnet", "id"),
      vpc_security_group_ids |-> <<Output("security_group", "id")>>,
      tags |-> [ Name |-> NameTag(environment, "web-server"),
                 Environment |-> environment,
                 Role |-> "web" ],
      depends_on |-> InstanceDependsOn ]

\* The Python names that hold resources.
ResourceVars == {"vpc", "subnet", "security_group", "bucket", "instance"}

(***************************************************************************)
(* The script, one statement per action.  A statement that reads a name    *)
(* not bound in the module namespace raises NameError and ends the script. *)
(***************************************************************************)
\* Variant of After: the subnet statement stands before the vpc statement.
AfterSubnetFirst(p) ==
    CASE p = "config" -> "environment"
      [] p = "environment" -> "instance_type"
      [] p = "instance_type" -> "subnet"
      [] p = "subnet" -> "vpc"
      [] p = "vpc" -> "security_group"
      [] p = "security_group" -> "bucket"
      [] p = "bucket" -> "instance"
      [] p = "instance" -> "export_vpcId"
      [] p = "export_vpcId" -> "export_subnetId"
      [] p = "export_subnetId" -> "export_securityGroupId"
      [] p = "export_securityGroupId" -> "export_bucketName"
      [] p = "export_bucketName" -> "export_instanceId"
      [] p = "export_instanceId" -> "export_instancePublicIp"
      [] p = "export_instancePublicIp" -> "done"

\* The statement that follows statement p in the file.
After(p) ==
    CASE p = "config" -> "environment"
      [] p = "environment" -> "instance_type"
      [] p = "instance_type" -> "vpc"
      [] p = "vpc" -> "subnet"
      [] p = "subnet" -> "security_group"
      [] p = "security_group" -> "bucket"
      [] p = "bucket" -> "instance"
      [] p = "instance" -> "export_vpcId"
      [] p = "export_vpcId" -> "export_subnetId"
      [] p = "export_subnetId" -> "export_securityGroupId"
      [] p = "export_securityGroupId" -> "export_bucketName"
      [] p = "export_bucketName" -> "export_instanceId"
      [] p = "export_instanceId" -> "export_instancePublicIp"
      [] p = "export_instancePublicIp" -> "done"

Bound(names) == names \subseteq DOMAIN globals

Raise ==
    /\ pc' = "NameError"
    /\ UNCHANGED <<cfg, globals, registered, exports, realized>>

\* name = value
Assign(name, value) == globals' = (name :> value) @@ globals

Init ==
    /\ cfg \in Configs
    /\ pc = "config"
    /\ globals = [n \in {"pulumi", "aws"} |-> n]
    /\ registered = <<>>
    /\ exports = <<>>
    /\ realized = <<>>

\* config = pulumi.Config()
LoadConfig ==
    /\ pc = "config"
    /\ IF Bound({"pulumi"})
       THEN /\ Assign("config", cfg)
            /\ pc' = After("config")
            /\ UNCHANGED <<cfg, registered, exports, realized>>
       ELSE Raise

\* environment = config.get("environment") or "dev"
SetEnvironment ==
    /\ pc = "environment"
    /\ IF Bound({"config"})
       THEN /\ Assign("environment",
                      PyOr(ConfigGet(globals["config"], "environment"), "dev"))
            /\ pc' = After("environment")
            /\ UNCHANGED <<cfg, registered, exports, realized>>
       ELSE Raise

\* instance_type = config.get("instanceType") or "t3.micro"
SetInstanceType ==
    /\ pc = "instance_type"
    /\ IF Bound({"config"})
       THEN /\ Assign("instance_type",
                      PyOr(ConfigGet(globals["config"], "instanceType"), "t3.micro"))
            /\ pc' = After("instance_type")
            /\ UNCHANGED <<cfg, registered, exports, realized>>
       ELSE Raise

\* var = Resource(name, **args): binds var and registers the resource.
Declare(p, var, reads, args) ==
    /\ pc = p
    /\ IF Bound(reads)
       THEN /\ Assign(var, args)
            /\ registered' = Append(registered, var)
            /\ pc' = After(p)
            /\ UNCHANGED <<cfg, exports, realized>>
       ELSE Raise

DeclareVpc ==
    Declare("vpc", "vpc", {"aws", "environment"},
            VpcArgs(globals["environment"]))

DeclareSubnet ==
    Declare("subnet", "subnet", {"aws", "vpc", "environment"},
            SubnetArgs(globals["environment"]))

DeclareSecurityGroup ==
    Declare("security_group", "security_group", {"aws", "vpc", "environment"},
            SecurityGroupArgs(globals["environment"]))

DeclareBucket ==
    Declare("bucket", "bucket", {"aws", "environment"},
            BucketArgs(globals["environment"]))

DeclareInstance ==
    Declare("instance", "instance",
            {"aws", "pulumi", "instance_type", "subnet", "security_group",
             "environment"},
            InstanceArgs(globals["environment"], globals["instance_type"]))

\* pulumi.export(name, var.attr)
Export(p, name, var, attr) ==
    /\ pc = p
    /\ IF Bound({"pulumi", var})
       THEN /\ exports' = (name :> Output(var, attr)) @@ exports
            /\ pc' = After(p)
            /\ UNCHANGED <<cfg, globals, registered, realized>>
       ELSE Raise

ExportVpcId == Export("export_vpcId", "vpcId", "vpc", "id")

ExportSubnetId == Export("export_subnetId", "subnetId", "subnet", "id")

ExportSecurityGroupId ==
    Export("export_securityGroupId", "securityGroupId", "security_group", "id")

\* Variant of ExportBucketName: the output reuses the name vpcId.
ExportBucketNameAsVpcId == Export("export_bucketName", "vpcId", "bucket", "id")

ExportBucketName == Export("export_bucketName", "bucketName", "bucket", "id")

ExportInstanceId == Export("export_instanceId", "instanceId", "instance", "id")

ExportInstancePublicIp ==
    Export("export_instancePublicIp", "instancePublicIp", "instance", "public_ip")

(***************************************************************************)
(* The provisioning engine: it realizes a registered resource once every   *)
(* resource it references through an Output or names in depends_on has     *)
(* been realized.                                                          *)
(***************************************************************************)
Range(s) == {s[i] : i \in DOMAIN s}

\* Resources referenced through Outputs in the arguments.
PropertyDeps(args) ==
    (IF "vpc_id" \in DOMAIN args THEN {args.vpc_id.res} ELSE {})
    \cup (IF "subnet_id" \in DOMAIN args THEN {args.subnet_id.res} ELSE {})
    \cup (IF "vpc_security_group_ids" \in DOMAIN args
          THEN {o.res : o \in Range(args.vpc_security_group_ids)} ELSE {})

\* Resources named in opts.depends_on.
ExplicitDeps(args) == args.depends_on

AllDeps(args) == PropertyDeps(args) \cup ExplicitDeps(args)

Realize(r) ==
    /\ r \in Range(registered)
    /\ r \notin Range(realized)
    /\ AllDeps(globals[r]) \subseteq Range(realized)
    /\ realized' = Append(realized, r)
    /\ UNCHANGED <<cfg, pc, globals, registered, exports>>

Next ==
    \/ LoadConfig
    \/ SetEnvironment
    \/ SetInstanceType
    \/ DeclareVpc
    \/ DeclareSubnet
    \/ DeclareSecurityGroup
    \/ DeclareBucket
    \/ DeclareInstance
    \/ ExportVpcId
    \/ ExportSubnetId
    \/ ExportSecurityGroupId
    \/ ExportBucketName
    \/ ExportInstanceId
    \/ ExportInstancePublicIp
    \/ \E r \in ResourceVars : Realize(r)

Spec == Init /\ [][Next]_vars

(***************************************************************************)
(* Realization schedules of a dependency graph deps: resource -> the set   *)
(* of resources it must follow.  A schedule lists every resource once,     *)
(* each after all the resources it must follow.                            *)
(***************************************************************************)
RECURSIVE SchedulesFrom(_, _)
SchedulesFrom(deps, done) ==
    IF done = DOMAIN deps THEN {<<>>}
    ELSE UNION { { <<r>> \o s : s \in SchedulesFrom(deps, done \cup {r}) }
                 : r \in {x \in DOMAIN deps \ done : deps[x] \subseteq done} }

Schedules(deps) == SchedulesFrom(deps, {})

\* The registered graph, with and without the explicit depends_on edges.
GraphWithExplicit == [r \in Range(registered) |-> AllDeps(globals[r])]

GraphWithoutExplicit == [r \in Range(registered) |-> PropertyDeps(globals[r])]

(***************************************************************************)
(* Properties.                                                             *)
(***************************************************************************)
Declared(r) == r \in Range(registered)

\* Position of r in sequence s, 0 when absent.
Pos(s, r) == IF r \in Range(s) THEN CHOOSE i \in DOMAIN s : s[i] = r ELSE 0

Suffix(r) ==
    CASE r = "vpc" -> "-vpc"
      [] r = "subnet" -> "-subnet"
      [] r = "security_group" -> "-sg"
      [] r = "bucket" -> "-bucket"
      [] r = "instance" -> "-web-server"

EnvSet == "environment" \in DOMAIN cfg

TypeSet == "instanceType" \in DOMAIN cfg

\* C1 as stated: for every string E the configuration supplies for the
\* environment key, the empty string included, the Name tag of each declared
\* resource is E followed by the resource's suffix.
C1_AsStated ==
    \A r \in Range(registered) :
        EnvSet => globals[r].tags.Name = cfg["environment"] \o Suffix(r)

\* C1 amended: for every non-empty string E the configuration supplies for
\* the environment key, the Name tag of each declared resource is E followed
\* by the resource's suffix; when the key is set to the empty string the Name
\* tag is "dev" followed by the suffix.
C1_NameTags ==
    \A r \in Range(registered) :
        EnvSet =>
            globals[r].tags.Name =
                (IF cfg["environment"] = "" THEN "dev" ELSE cfg["environment"])
                    \o Suffix(r)

C1_Witness ==
    /\ EnvSet
    /\ cfg["environment"] = "pd"
    /\ Range(registered) = ResourceVars
    /\ globals["instance"].tags.Name = "pd-web-server"

\* C2: with the environment key unset the derived environment, and so every
\* tag, is "dev"; with the instanceType key unset the instance's size class is
\* "t3.micro"; each whether or not the other key is set.
C2_Defaults ==
    /\ (~EnvSet /\ "environment" \in DOMAIN globals) =>
           /\ globals["environment"] = "dev"
           /\ \A r \in Range(registered) :
                  /\ globals[r].tags.Environment = "dev"
                  /\ globals[r].tags.Name = "dev" \o Suffix(r)
    /\ (~TypeSet /\ "instance_type" \in DOMAIN globals) =>
           /\ globals["instance_type"] = "t3.micro"
           /\ Declared("instance") =>
                  globals["instance"].instance_type = "t3.micro"

C2_Witness ==
    /\ ~EnvSet
    /\ TypeSet
    /\ cfg["instanceType"] = "m5.large"
    /\ Declared("instance")
    /\ globals["instance"].tags.Environment = "dev"
    /\ globals["instance"].instance_type = "m5.large"

\* C3: the security group has exactly two inbound rules, one for port 80 and
\* one for port 22, each open to 0.0.0.0/0, and exactly one outbound rule, all
\* protocols and ports to 0.0.0.0/0.
C3_Rules ==
    Declared("security_group") =>
        LET sg == globals["security_group"] IN
        /\ Len(sg.ingress) = 2
        /\ {<<sg.ingress[i].from_port, sg.ingress[i].to_port>> :
                i \in DOMAIN sg.ingress} = {<<80, 80>>, <<22, 22>>}
        /\ \A i \in DOMAIN sg.ingress :
               sg.ingress[i].cidr_blocks = <<"0.0.0.0/0">>
        /\ Len(sg.egress) = 1
        /\ sg.egress[1].protocol = "-1"
        /\ sg.egress[1].from_port = 0
        /\ sg.egress[1].to_port = 0
        /\ sg.egress[1].cidr_blocks = <<"0.0.0.0/0">>

C3_Witness ==
    /\ Declared("security_group")
    /\ EnvSet
    /\ TypeSet

\* C4: whatever the configuration, the bucket has versioning enabled and
\* AES256 server-side encryption.
C4_Bucket ==
    Declared("bucket") =>
        LET b == globals["bucket"] IN
        /\ b.versioning.enabled = TRUE
        /\ b.server_side_encryption_configuration.rule
              .apply_server_side_encryption_by_default.sse_algorithm = "AES256"

C4_Witness ==
    /\ Declared("bucket")
    /\ EnvSet
    /\ cfg["environment"] = ""
    /\ ~TypeSet

\* C5: the instance's subnet is the declared subnet, the declared security
\* group is in its security-group list, and its depends_on is exactly
\* {subnet, security group}.
C5_InstanceRefs ==
    Declared("instance") =>
        LET i == globals["instance"] IN
        /\ i.subnet_id = Output("subnet", "id")
        /\ Output("security_group", "id") \in Range(i.vpc_security_group_ids)
        /\ i.depends_on = {"subnet", "security_group"}
        /\ {"subnet", "security_group"} \subseteq Range(registered)

C5_Witness ==
    /\ Declared("instance")
    /\ pc = "export_vpcId"

\* C6: at every step of the evaluation, the script has raised no NameError,
\* every resource a declaration references or depends on was registered at
\* an earlier step, and every output refers to a registered resource.
C6_RefsResolve ==
    /\ pc # "NameError"
    /\ \A i \in DOMAIN registered :
           AllDeps(globals[registered[i]]) \subseteq
               {registered[j] : j \in 1..(i - 1)}
    /\ \A n \in DOMAIN exports : exports[n].res \in Range(registered)

C6_Witness ==
    /\ pc = "done"
    /\ Len(registered) = 5
    /\ Cardinality(DOMAIN exports) = 6

\* C7: a finished execution has published exactly six outputs under six
\* distinct names, each bound to the named attribute of its resource; no
\* other output name is ever published.
C7_Outputs ==
    /\ DOMAIN exports \subseteq
           {"vpcId", "subnetId", "securityGroupId", "bucketName",
            "instanceId", "instancePublicIp"}
    /\ pc = "done" =>
           /\ Cardinality(DOMAIN exports) = 6
           /\ exports["vpcId"] = Output("vpc", "id")
           /\ exports["subnetId"] = Output("subnet", "id")
           /\ exports["securityGroupId"] = Output("security_group", "id")
           /\ exports["bucketName"] = Output("bucket", "id")
           /\ exports["instanceId"] = Output("instance", "id")
           /\ exports["instancePublicIp"] = Output("instance", "public_ip")
           /\ \A n \in DOMAIN exports : Declared(exports[n].res)

C7_Witness ==
    /\ pc = "done"
    /\ Cardinality(DOMAIN exports) = 6

\* The orderings C8 names: <<a, b>> means a is realized before b.
RequiredOrder ==
    { <<"vpc", "subnet">>, <<"vpc", "security_group">>,
      <<"subnet", "instance">>, <<"security_group", "instance">>,
      <<"vpc", "instance">> }

Respects(s, pair) ==
    pair[2] \in Range(s) =>
        /\ pair[1] \in Range(s)
        /\ Pos(s, pair[1]) < Pos(s, pair[2])

\* s with r removed.
Without(s, r) == SelectSeq(s, LAMBDA x : x # r)

\* s with r inserted at position k.
InsertAt(s, k, r) == SubSeq(s, 1, k - 1) \o <<r>> \o SubSeq(s, k, Len(s))

\* C8: the engine realizes the vpc before the subnet and the security group,
\* and both before the instance, in the run and in every schedule of the
\* finished graph; the bucket is realizable as soon as it is registered and
\* moving it to any position of a schedule gives a schedule.
C8_Order ==
    /\ \A pair \in RequiredOrder : Respects(realized, pair)
    /\ (Declared("bucket") /\ "bucket" \notin Range(realized)) =>
           ENABLED Realize("bucket")
    /\ pc = "done" =>
           LET all == Schedules(GraphWithExplicit) IN
           /\ all # {}
           /\ \A s \in all :
                  /\ \A pair \in RequiredOrder : Respects(s, pair)
                  /\ \A k \in 1..Len(s) :
                         InsertAt(Without(s, "bucket"), k, "bucket") \in all

C8_Witness ==
    /\ pc = "done"
    /\ Len(realized) = 5
    /\ realized[3] = "bucket"

\* C9: the schedules of the registered graph are the same with and without
\* the depends_on edges, and at every step the engine may realize the same
\* resources either way.
C9_ExplicitRedundant ==
    /\ Schedules(GraphWithExplicit) = Schedules(GraphWithoutExplicit)
    /\ Schedules(GraphWithExplicit) # {}
    /\ \A r \in Range(registered) :
           AllDeps(globals[r]) \subseteq Range(realized)
               <=> PropertyDeps(globals[r]) \subseteq Range(realized)

C9_Witness ==
    /\ Declared("instance")
    /\ ExplicitDeps(globals["instance"]) # {}
    /\ Len(realized) = 5

\* The graph an execution under configuration c declares.
GraphOf(c) ==
    LET e == PyOr(ConfigGet(c, "environment"), "dev")
        t == PyOr(ConfigGet(c, "instanceType"), "t3.micro")
    IN  [ vpc |-> VpcArgs(e),
          subnet |-> SubnetArgs(e),
          security_group |-> SecurityGroupArgs(e),
          bucket |-> BucketArgs(e),
          instance |-> InstanceArgs(e, t) ]

\* What C10 says two executions share: everything but the values of the Name
\* and Environment tags and the instance's size class.
Shared(args) ==
    [ fields |-> DOMAIN args,
      tagKeys |-> DOMAIN args.tags,
      otherTags |-> [k \in DOMAIN args.tags \ {"Name", "Environment"} |->
                        args.tags[k]],
      rest |-> [k \in DOMAIN args \ {"tags", "instance_type"} |-> args[k]] ]

\* C10: what this execution has declared agrees, outside the Name and
\* Environment tag values and the size class, with what an execution under
\* any other configuration declares, resource by resource and in the same
\* order; the output names of a finished execution are the same six.
C10_ConfigOnlyInTags ==
    /\ \A c \in Configs :
           \A r \in Range(registered) :
               Shared(globals[r]) = Shared(GraphOf(c)[r])
    /\ \E n \in 0..5 :
           registered =
               SubSeq(<<"vpc", "subnet", "security_group", "bucket", "instance">>,
                      1, n)
    /\ pc = "done" =>
           DOMAIN exports =
               {"vpcId", "subnetId", "securityGroupId", "bucketName",
                "instanceId", "instancePublicIp"}

C10_Witness ==
    /\ pc = "done"
    /\ EnvSet
    /\ cfg["environment"] = "p"
    /\ TypeSet
    /\ cfg["instanceType"] = "m5.large"
    /\ globals["instance"].instance_type = "m5.large"

====
